---- MODULE Spec2Model ----
(***************************************************************************)
(* A model of go-commitgen's generation pipeline:                          *)
(*   - ollama.Client.Generate   (internal/ollama/client.go)                *)
(*   - usecase.Service.Execute  (internal/usecase/service.go)              *)
(*   - commit.ParseParts, FallbackParts, BuildMessage and their helpers    *)
(*     (internal/commit/message.go, internal/util)                         *)
(* Strings are sequences of one-character strings, so that trimming,       *)
(* truncation and concatenation are computed, not assumed.                 *)
(***************************************************************************)
EXTENDS Integers, Sequences, FiniteSets, TLC

VARIABLES
    \* ---- Client.Generate ----
    gpc,        \* position in Generate: "start", "scanning", "returned"
    transport,  \* outcome of c.http.Do: "ok" or "neterr"
    status,     \* resp.StatusCode
    lines,      \* the response body, as the lines the scanner can deliver
    ending,     \* how the body ends: "eof", "cancelled", "toolong"
    pos,        \* number of lines the scanner has delivered
    scErr,      \* the scanner's recorded error (sc.Err()), "none" if nil
    out,        \* strings.Builder out
    broke,      \* the loop left through break (chunk.Done)
    gret,       \* what Generate returned: [text, err, code, body]
    \* ---- Service.Execute ----
    epc,         \* position in Execute
    initialized, \* the service and its Repo and LLM are non-nil
    optReview,   \* opts.Review
    optMaxBytes, \* opts.MaxBytes
    expired,     \* the deadline of ctx has passed
    calls,       \* the calls made to s.LLM.Generate, in order, with outcomes
    eRaw,        \* the text the generation call returned
    parsePath,   \* which function produced parts: "strict", "fallback", "none"
    eResult,     \* the Result being built, then the one returned
    eErr,        \* the error returned, "none" if nil
    \* ---- package commit, function by function ----
    mBranch,    \* a branch name
    mParts,     \* a Parts value
    mRaw,       \* a model response
    mToken,     \* a commit-type token
    mres        \* the function applied and what it returned

genVars == <<gpc, transport, status, lines, ending, pos, scErr, out, broke, gret>>

execVars ==
    <<epc, initialized, optReview, optMaxBytes, expired, calls, eRaw, parsePath,
      eResult, eErr>>

msgVars == <<mBranch, mParts, mRaw, mToken, mres>>

vars == <<genVars, execVars, msgVars>>

-----------------------------------------------------------------------------
(* Bounds *)

\* longest response body, in lines
MaxLines == 3

\* longest text enumerated character by character
MaxText == 3

-----------------------------------------------------------------------------
(* Text helpers: package strings and internal/util *)

\* unicode.IsSpace / regexp \s, restricted to the characters the model uses
Whitespace == {" ", "\t", "\n", "\r"}

\* s without its longest prefix, or suffix, of characters of the set cut
TrimLeftSet(s, cut) ==
    IF \A i \in 1..Len(s) : s[i] \in cut THEN <<>>
    ELSE SubSeq(s, CHOOSE i \in 1..Len(s) :
                     s[i] \notin cut /\ \A j \in 1..(i - 1) : s[j] \in cut,
                Len(s))

TrimRightSet(s, cut) ==
    IF \A i \in 1..Len(s) : s[i] \in cut THEN <<>>
    ELSE SubSeq(s, 1, CHOOSE i \in 1..Len(s) :
                        s[i] \notin cut /\ \A j \in (i + 1)..Len(s) : s[j] \in cut)

TrimLeftSpace(s) == TrimLeftSet(s, Whitespace)

TrimRightSpace(s) == TrimRightSet(s, Whitespace)

\* strings.TrimSpace
TrimSpace(s) == TrimRightSpace(TrimLeftSpace(s))

\* strings.TrimRight(s, ".")
TrimRightPeriods(s) == TrimRightSet(s, {"."})

\* strings.Trim(s, "[]")
TrimBrackets(s) == TrimRightSet(TrimLeftSet(s, {"[", "]"}), {"[", "]"})

UpperLetters ==
    <<"A", "B", "C", "D", "E", "F", "G", "H", "I", "J", "K", "L", "M",
      "N", "O", "P", "Q", "R", "S", "T", "U", "V", "W", "X", "Y", "Z">>

LowerLetters ==
    <<"a", "b", "c", "d", "e", "f", "g", "h", "i", "j", "k", "l", "m",
      "n", "o", "p", "q", "r", "s", "t", "u", "v", "w", "x", "y", "z">>

Digits == {"0", "1", "2", "3", "4", "5", "6", "7", "8", "9"}

IsLetter(c) ==
    \E i \in 1..Len(UpperLetters) : c = UpperLetters[i] \/ c = LowerLetters[i]

IsDigit(c) == c \in Digits

LowerChar(c) ==
    IF \E i \in 1..Len(UpperLetters) : c = UpperLetters[i]
      THEN LowerLetters[CHOOSE i \in 1..Len(UpperLetters) : c = UpperLetters[i]]
      ELSE c

\* strings.ToLower
ToLower(s) == [i \in 1..Len(s) |-> LowerChar(s[i])]

\* strings.HasPrefix
HasPrefix(s, p) == Len(p) <= Len(s) /\ SubSeq(s, 1, Len(p)) = p

\* strings.Contains
Contains(s, sub) ==
    \E i \in 0..(Len(s) - Len(sub)) : SubSeq(s, i + 1, i + Len(sub)) = sub

\* strings.Index / strings.LastIndex for a one-character needle, 1-based;
\* 0 stands for Go's -1
IndexChar(s, c) ==
    IF \E i \in 1..Len(s) : s[i] = c
      THEN CHOOSE i \in 1..Len(s) : s[i] = c /\ \A j \in 1..(i - 1) : s[j] # c
      ELSE 0

LastIndexChar(s, c) ==
    IF \E i \in 1..Len(s) : s[i] = c
      THEN CHOOSE i \in 1..Len(s) : s[i] = c /\ \A j \in (i + 1)..Len(s) : s[j] # c
      ELSE 0

\* strings.Join
RECURSIVE Join(_, _)
Join(ls, sep) ==
    IF ls = <<>> THEN <<>>
    ELSE IF Len(ls) = 1 THEN ls[1]
    ELSE ls[1] \o sep \o Join(Tail(ls), sep)

\* strings.Split(s, "\n")
RECURSIVE SplitLines(_)
SplitLines(s) ==
    LET i == IndexChar(s, "\n") IN
    IF i = 0 THEN <<s>>
    ELSE <<SubSeq(s, 1, i - 1)>> \o SplitLines(SubSeq(s, i + 1, Len(s)))

\* strings.ReplaceAll(s, "\r\n", "\n")
ReplaceCRLF(s) ==
    LET Kept(i) == ~(s[i] = "\r" /\ i < Len(s) /\ s[i + 1] = "\n")
        idx == SelectSeq([i \in 1..Len(s) |-> i], Kept)
    IN [k \in 1..Len(idx) |-> s[idx[k]]]

\* the rune U+2026 that TruncateShorten appends
Ellipsis == "<ellipsis>"

\* util.CondenseSpaces: every run of whitespace becomes one space
CondenseSpaces(s) ==
    LET Starts(i) == s[i] \notin Whitespace \/ i = 1 \/ s[i - 1] \notin Whitespace
        idx == SelectSeq([i \in 1..Len(s) |-> i], Starts)
    IN [k \in 1..Len(idx) |-> IF s[idx[k]] \in Whitespace THEN " " ELSE s[idx[k]]]

\* util.TruncateShorten; Len counts runes
TruncateShorten(s, n) ==
    IF n <= 0 THEN <<>>
    ELSE IF Len(s) <= n THEN s
    ELSE SubSeq(s, 1, n - 1) \o <<Ellipsis>>

\* util.TrimLines
TrimLines(s) ==
    IF s = <<>> THEN <<>>
    ELSE LET ls == SplitLines(ReplaceCRLF(s))
             trimmed == [i \in 1..Len(ls) |-> TrimSpace(ls[i])]
             NonEmpty(l) == l # <<>>
         IN SelectSeq(trimmed, NonEmpty)

-----------------------------------------------------------------------------
(* package commit: internal/commit/message.go *)

W_feat == <<"f", "e", "a", "t">>

W_feature == <<"f", "e", "a", "t", "u", "r", "e">>

W_fix == <<"f", "i", "x">>

W_bugfix == <<"b", "u", "g", "f", "i", "x">>

W_perf == <<"p", "e", "r", "f">>

W_refactor == <<"r", "e", "f", "a", "c", "t", "o", "r">>

W_docs == <<"d", "o", "c", "s">>

W_doc == <<"d", "o", "c">>

W_test == <<"t", "e", "s", "t">>

W_tests == <<"t", "e", "s", "t", "s">>

W_build == <<"b", "u", "i", "l", "d">>

W_chore == <<"c", "h", "o", "r", "e">>

W_ci == <<"c", "i">>

\* the synonym table, in the order of its declaration
allowedCommitTypes ==
    <<[key |-> W_feat, value |-> W_feat],
      [key |-> W_feature, value |-> W_feat],
      [key |-> W_fix, value |-> W_fix],
      [key |-> W_bugfix, value |-> W_fix],
      [key |-> W_perf, value |-> W_perf],
      [key |-> W_refactor, value |-> W_refactor],
      [key |-> W_docs, value |-> W_docs],
      [key |-> W_doc, value |-> W_docs],
      [key |-> W_test, value |-> W_test],
      [key |-> W_tests, value |-> W_test],
      [key |-> W_build, value |-> W_build],
      [key |-> W_chore, value |-> W_chore],
      [key |-> W_ci, value |-> W_ci]>>

commitKeywords ==
    <<W_fix, W_feat, W_perf, W_refactor, W_docs, W_test, W_build, W_ci>>

DefaultDescription ==
    <<"u", "p", "d", "a", "t", "e", " ", "p", "r", "o", "j", "e", "c", "t",
      " ", "f", "i", "l", "e", "s">>

UnknownTicket == <<"u", "n", "k", "n", "o", "w", "n">>

\* the length limits of description, summary and body lines
DescriptionLimit == 72

SummaryLimit == 100

BodyLineLimit == 300

\* Orders in which `range allowedCommitTypes` may visit the table (Go leaves
\* the order of a map's iteration unspecified): the declaration order and its
\* reverse, which put every pair of keys in both relative orders.
DeclarationOrder == [i \in 1..Len(allowedCommitTypes) |-> i]

ReverseOrder ==
    [i \in 1..Len(allowedCommitTypes) |-> Len(allowedCommitTypes) + 1 - i]

IterationOrders == {DeclarationOrder, ReverseOrder}

\* normaliseCommitType, with the table visited in `order`
normaliseCommitTypeRaw(t, order) ==
    LET candidate == TrimBrackets(ToLower(TrimSpace(t)))
        Exact(i) == allowedCommitTypes[i].key = candidate
        Prefixed(i) == HasPrefix(candidate, allowedCommitTypes[i].key)
        hits == SelectSeq(order, Prefixed)
    IN IF candidate = <<>> THEN W_chore
       ELSE IF \E i \in 1..Len(allowedCommitTypes) : Exact(i)
         THEN allowedCommitTypes[CHOOSE i \in 1..Len(allowedCommitTypes) : Exact(i)].value
       ELSE IF hits # <<>> THEN allowedCommitTypes[hits[1]].value
       ELSE candidate

\* normaliseCommitType with the arguments of strings.HasPrefix exchanged
normaliseCommitTypeReversed(t, order) ==
    LET candidate == TrimBrackets(ToLower(TrimSpace(t)))
        Exact(i) == allowedCommitTypes[i].key = candidate
        Prefixed(i) == HasPrefix(allowedCommitTypes[i].key, candidate)
        hits == SelectSeq(order, Prefixed)
    IN IF candidate = <<>> THEN W_chore
       ELSE IF \E i \in 1..Len(allowedCommitTypes) : Exact(i)
         THEN allowedCommitTypes[CHOOSE i \in 1..Len(allowedCommitTypes) : Exact(i)].value
       ELSE IF hits # <<>> THEN allowedCommitTypes[hits[1]].value
       ELSE W_chore

normaliseCommitType(t, order) ==
    LET candidate == TrimBrackets(ToLower(TrimSpace(t)))
        Exact(i) == allowedCommitTypes[i].key = candidate
        Prefixed(i) == HasPrefix(candidate, allowedCommitTypes[i].key)
        hits == SelectSeq(order, Prefixed)
    IN IF candidate = <<>> THEN W_chore
       ELSE IF \E i \in 1..Len(allowedCommitTypes) : Exact(i)
         THEN allowedCommitTypes[CHOOSE i \in 1..Len(allowedCommitTypes) : Exact(i)].value
       ELSE IF hits # <<>> THEN allowedCommitTypes[hits[1]].value
       ELSE W_chore

\* detectCommitType: the first keyword of commitKeywords the text contains
detectCommitType(raw, order) ==
    LET lower == ToLower(raw)
        Found(k) == Contains(lower, k)
        found == SelectSeq(commitKeywords, Found)
    IN IF found # <<>> THEN normaliseCommitType(found[1], order) ELSE W_chore

sanitizeDescription(s) ==
    LET c == CondenseSpaces(TrimSpace(s)) IN
    IF c = <<>> THEN <<>>
    ELSE TrimRightPeriods(IF Len(c) > DescriptionLimit
                            THEN TruncateShorten(c, DescriptionLimit)
                            ELSE c)

sanitizeSummary(s) ==
    LET c == CondenseSpaces(TrimSpace(s)) IN
    IF c = <<>> THEN <<>>
    ELSE IF Len(c) > SummaryLimit THEN TruncateShorten(c, SummaryLimit)
    ELSE c

sanitizeBody(body, summary) ==
    LET b == IF TrimSpace(body) = <<>> THEN summary ELSE TrimSpace(body)
        ls == TrimLines(b)
        Clean(l) == LET c == CondenseSpaces(l) IN
                    IF Len(c) > BodyLineLimit THEN TruncateShorten(c, BodyLineLimit)
                    ELSE c
    IN IF ls = <<>> THEN <<>>
       ELSE Join([i \in 1..Len(ls) |-> Clean(ls[i])], <<"\n">>)

\* the lengths of the runs of letters and of digits that start at s[i]
LetterRun(s, i) ==
    CHOOSE n \in 0..(Len(s) + 1) :
        /\ \A k \in i..(i + n - 1) : k <= Len(s) /\ IsLetter(s[k])
        /\ (i + n > Len(s) \/ ~IsLetter(s[i + n]))

DigitRun(s, i) ==
    CHOOSE n \in 0..(Len(s) + 1) :
        /\ \A k \in i..(i + n - 1) : k <= Len(s) /\ IsDigit(s[k])
        /\ (i + n > Len(s) \/ ~IsDigit(s[i + n]))

\* ticketPattern.FindStringSubmatch for ^([A-Za-z]+-\d+): the matched
\* ticket, or <<>> when the pattern does not match
TicketMatch(s) ==
    LET nl == LetterRun(s, 1)
        nd == DigitRun(s, nl + 2)
    IN IF nl >= 1 /\ nl + 1 <= Len(s) /\ s[nl + 1] = "-" /\ nd >= 1
         THEN SubSeq(s, 1, nl + 1 + nd)
         ELSE <<>>

\* extractTicket without the test idx < len(branch)-1
extractTicketAnySlash(branch) ==
    LET b == CondenseSpaces(TrimSpace(branch))
        idx == LastIndexChar(b, "/")
        seg == IF idx # 0 THEN SubSeq(b, idx + 1, Len(b)) ELSE b
    IN IF b = <<>> THEN UnknownTicket
       ELSE IF TicketMatch(seg) # <<>> THEN TicketMatch(seg)
       ELSE seg

extractTicket(branch) ==
    LET b == CondenseSpaces(TrimSpace(branch))
        idx == LastIndexChar(b, "/")
        seg == IF idx # 0 /\ idx < Len(b) THEN SubSeq(b, idx + 1, Len(b)) ELSE b
    IN IF b = <<>> THEN UnknownTicket
       ELSE IF TicketMatch(seg) # <<>> THEN TicketMatch(seg)
       ELSE seg

Parts(t, d, s, b) ==
    [CommitType |-> t, Description |-> d, Summary |-> s, Body |-> b]

EmptyParts == Parts(<<>>, <<>>, <<>>, <<>>)

normaliseParts(p, order) ==
    LET summary == sanitizeSummary(p.Summary) IN
    Parts(normaliseCommitType(p.CommitType, order),
          sanitizeDescription(p.Description),
          summary,
          sanitizeBody(p.Body, summary))

\* ---- encoding/json, for the inputs the model draws: one flat object whose
\* values are strings, integers or null; strings may hold the escapes
\* \" \\ \/ \n \t \r ----

\* the first position from i on that holds no whitespace
SkipSpace(s, i) ==
    CHOOSE j \in i..(Len(s) + 1) :
        /\ \A k \in i..(j - 1) : s[k] \in Whitespace
        /\ (j > Len(s) \/ s[j] \notin Whitespace)

ScanFail == [ok |-> FALSE, kind |-> "none", val |-> <<>>, next |-> 0]

Unescape(c) ==
    CASE c = "n" -> "\n"
      [] c = "t" -> "\t"
      [] c = "r" -> "\r"
      [] OTHER -> c

\* the number of backslashes that immediately precede s[j]
BackslashRun(s, j) ==
    CHOOSE m \in 0..(j - 1) :
        /\ \A t \in 1..m : s[j - t] = "\\"
        /\ (m = j - 1 \/ s[j - m - 1] # "\\")

\* s[j] is the character of an escape sequence, the one after its backslash
Escaped(s, j) == BackslashRun(s, j) % 2 = 1

\* the JSON string whose opening quote precedes s[i]: its value and the
\* position after its closing quote
ScanString(s, i) ==
    LET Closes(j) == s[j] = "\"" /\ ~Escaped(s, j)
    IN IF ~\E j \in i..Len(s) : Closes(j) THEN ScanFail
       ELSE LET close == CHOOSE j \in i..Len(s) :
                           Closes(j) /\ \A k \in i..(j - 1) : ~Closes(k)
                Starts(t) == s[t] = "\\" /\ ~Escaped(s, t)
                Valid(t) ==
                    IF Escaped(s, t) THEN s[t] \in {"\"", "\\", "/", "n", "t", "r"}
                    ELSE s[t] \notin {"\n", "\t", "\r"}
                NotStart(t) == ~Starts(t)
                idx == SelectSeq([k \in 1..(close - i) |-> i + k - 1], NotStart)
            IN IF \E t \in i..(close - 1) : ~Valid(t) THEN ScanFail
               ELSE [ok |-> TRUE, kind |-> "string",
                     val |-> [k \in 1..Len(idx) |->
                                IF Escaped(s, idx[k]) THEN Unescape(s[idx[k]])
                                ELSE s[idx[k]]],
                     next |-> close + 1]

\* a JSON value starting at s[i]
ScanValue(s, i) ==
    IF i > Len(s) THEN ScanFail
    ELSE IF s[i] = "\"" THEN ScanString(s, i + 1)
    ELSE IF IsDigit(s[i]) /\ (s[i] # "0" \/ DigitRun(s, i) = 1)
      THEN [ok |-> TRUE, kind |-> "number", val |-> <<>>, next |-> i + DigitRun(s, i)]
    ELSE IF i + 3 <= Len(s) /\ SubSeq(s, i, i + 3) = <<"n", "u", "l", "l">>
      THEN [ok |-> TRUE, kind |-> "null", val |-> <<>>, next |-> i + 4]
    ELSE ScanFail

W_commit_type == <<"c", "o", "m", "m", "i", "t", "_", "t", "y", "p", "e">>

W_description == <<"d", "e", "s", "c", "r", "i", "p", "t", "i", "o", "n">>

W_summary == <<"s", "u", "m", "m", "a", "r", "y">>

W_body == <<"b", "o", "d", "y">>

\* the struct field a key names (json tags of Parts; the match folds case)
FieldOf(key) ==
    LET k == ToLower(key) IN
    CASE k = W_commit_type -> "CommitType"
      [] k = W_description -> "Description"
      [] k = W_summary -> "Summary"
      [] k = W_body -> "Body"
      [] OTHER -> "none"

DecodeFail == [ok |-> FALSE, parts |-> EmptyParts]

\* the members of the object from the key that starts at s[i] on; p holds the
\* fields decoded so far and typeErr whether a known field held a non-string
RECURSIVE ScanMembers(_, _, _, _)
ScanMembers(s, i, p, typeErr) ==
    IF i > Len(s) \/ s[i] # "\"" THEN DecodeFail
    ELSE LET k == ScanString(s, i + 1) IN
    IF ~k.ok THEN DecodeFail
    ELSE LET c == SkipSpace(s, k.next) IN
    IF c > Len(s) \/ s[c] # ":" THEN DecodeFail
    ELSE LET v == ScanValue(s, SkipSpace(s, c + 1)) IN
    IF ~v.ok THEN DecodeFail
    ELSE LET f == FieldOf(k.val)
             q == IF f # "none" /\ v.kind = "string" THEN [p EXCEPT ![f] = v.val] ELSE p
             e == typeErr \/ (f # "none" /\ v.kind = "number")
             n == SkipSpace(s, v.next)
         IN IF n > Len(s) THEN DecodeFail
            ELSE IF s[n] = "," THEN ScanMembers(s, SkipSpace(s, n + 1), q, e)
            ELSE IF s[n] = "}" /\ n = Len(s) THEN [ok |-> ~e, parts |-> q]
            ELSE DecodeFail

\* json.Unmarshal(text, &p) for a text that starts with "{" and ends with "}"
DecodeParts(s) ==
    LET i == SkipSpace(s, 2) IN
    IF i = Len(s) THEN [ok |-> TRUE, parts |-> EmptyParts]
    ELSE ScanMembers(s, i, EmptyParts, FALSE)

NoParts(e) == [err |-> e, parts |-> EmptyParts]

\* commit.ParseParts
ParseParts(raw, order) ==
    LET r == TrimSpace(raw)
        start == IndexChar(r, "{")
        end == LastIndexChar(r, "}")
    IN IF r = <<>> THEN NoParts("empty response")
       ELSE IF start = 0 \/ end = 0 \/ start > end
         THEN NoParts("response missing JSON object")
       ELSE LET d == DecodeParts(SubSeq(r, start, end)) IN
            IF ~d.ok THEN NoParts("json")
            ELSE [err |-> "none", parts |-> normaliseParts(d.parts, order)]

\* commit.FallbackParts
FallbackParts(raw, order) ==
    LET d == sanitizeDescription(raw)
        clean == IF d = <<>> THEN DefaultDescription ELSE d
        s == sanitizeSummary(raw)
        summary == IF s = <<>> THEN TruncateShorten(clean, SummaryLimit) ELSE s
    IN Parts(detectCommitType(raw, order), clean, summary, sanitizeBody(raw, summary))

\* the description and the summary BuildMessage settles on
BuildDescription(parts) ==
    LET summary == sanitizeSummary(parts.Summary)
        description == sanitizeDescription(parts.Description)
    IN IF description # <<>> THEN description
       ELSE IF summary # <<>> THEN summary
       ELSE DefaultDescription

BuildSummary(parts) ==
    LET summary == sanitizeSummary(parts.Summary) IN
    IF summary # <<>> THEN summary
    ELSE TruncateShorten(BuildDescription(parts), SummaryLimit)

\* the headline before it is trimmed: strings.Join of the three tokens
JoinedHeadline(ticket, commitType, description) ==
    ticket \o <<" ", "[">> \o commitType \o <<"]", " ">> \o description

\* commit.BuildMessage
BuildMessageUntrimmed(branch, parts, order) ==
    [Headline |-> JoinedHeadline(extractTicket(branch),
                                 normaliseCommitType(parts.CommitType, order),
                                 BuildDescription(parts)),
     Body |-> sanitizeBody(parts.Body, BuildSummary(parts))]

BuildMessage(branch, parts, order) ==
    [Headline |-> TrimSpace(JoinedHeadline(extractTicket(branch),
                                           normaliseCommitType(parts.CommitType, order),
                                           BuildDescription(parts))),
     Body |-> sanitizeBody(parts.Body, BuildSummary(parts))]

-----------------------------------------------------------------------------
(* The inputs the pure functions and the pipeline are exercised on *)

Rep(c, n) == [i \in 1..n |-> c]

\* every text of at most n characters over TextAlphabet
TextAlphabet == {"a", " ", "."}

TextsUpTo(n) == UNION {[1..k -> TextAlphabet] : k \in 0..n}

ShortTexts == TextsUpTo(MaxText)

\* texts whose length is at, just under or just over a limit: a run of
\* letters followed by every ending of at most two characters
TextsNear(limit) ==
    {Rep("a", n) \o t : n \in (limit - 2)..limit, t \in TextsUpTo(2)}

\* commit-type tokens: the table's keys, other spellings of them, prefixes
\* and extensions of keys, and unrelated words
Tokens ==
    {<<>>,
     <<"f", "e", "a", "t">>,
     <<"f", "e", "a", "t", "u", "r", "e">>,
     <<"f", "i", "x">>,
     <<"b", "u", "g", "f", "i", "x">>,
     <<"p", "e", "r", "f">>,
     <<"r", "e", "f", "a", "c", "t", "o", "r">>,
     <<"d", "o", "c", "s">>,
     <<"d", "o", "c">>,
     <<"t", "e", "s", "t">>,
     <<"t", "e", "s", "t", "s">>,
     <<"b", "u", "i", "l", "d">>,
     <<"c", "h", "o", "r", "e">>,
     <<"c", "i">>,
     <<"F", "e", "a", "t", "u", "r", "e">>,
     <<"[", "f", "i", "x", "]">>,
     <<" ", "d", "o", "c", "s", " ">>,
     <<"F", "I", "X">>,
     <<"[", " ", "f", "e", "a", "t", " ", "]">>,
     <<"r", "e", "f", "a", "c">>,
     <<"b", "u", "g">>,
     <<"f", "e", "a", "t", "u", "r", "e", "s">>,
     <<"t", "e", "s", "t", "i", "n", "g">>,
     <<"b", "u", "g", "f", "i", "x", "e", "s">>,
     <<"c", "i", "c", "d">>,
     <<"d", "o", "c", "u", "m", "e", "n", "t", "a", "t", "i", "o", "n">>,
     <<"p", "e", "r", "f", "o", "r", "m", "a", "n", "c", "e">>,
     <<"f">>,
     <<"]">>,
     <<"[", "]">>,
     <<"s", "t", "y", "l", "e">>,
     <<"x", "y", "z">>,
     <<"f", "i", "x", "t", "u", "r", "e">>}

\* branch names, well-formed and degenerate
Branches ==
    {<<>>,
     <<" ", " ">>,
     <<"m", "a", "i", "n">>,
     <<"f", "e", "a", "t", "u", "r", "e", "/", "T", "E", "S", "-", "1", "2",
       "3", "-", "l", "o", "g", "i", "n", "-", "a", "u", "d", "i", "t">>,
     <<"f", "e", "a", "t", "u", "r", "e", "/", "T", "E", "S", "-", "1", "2",
       "3", "-", "l", "o", "g", "i", "n">>,
     <<"x", "/">>,
     <<"/">>,
     <<"a", "/", "b", "/", "c">>,
     <<"b", "u", "g", "f", "i", "x", "/", "a", "b", "-", "1", "2">>,
     <<"m", "y", " ", " ", "b", "r", "a", "n", "c", "h">>,
     <<"a", "/", " ", "b">>,
     <<"T", "E", "S", "-", "1", "2", "3">>,
     <<"a", "-", "1", "b">>,
     <<"-", "1">>,
     <<"9", "-", "1">>,
     <<"f", "e", "a", "t", "/", "A", "B", "C", "-">>,
     <<"H", "E", "A", "D">>}

\* model responses: the example of the prompt, prose, malformed JSON, objects
\* without a usable description, JSON wrapped in prose
CuratedRaw ==
    {<<"{", "\"", "c", "o", "m", "m", "i", "t", "_", "t", "y", "p", "e",
       "\"", ":", "\"", "s", "t", "y", "l", "e", "\"", ",", "\"", "d", "e",
       "s", "c", "r", "i", "p", "t", "i", "o", "n", "\"", ":", "\"", "x",
       "\"", "}">>,
     <<"{", "\"", "c", "o", "m", "m", "i", "t", "_", "t", "y", "p", "e",
       "\"", ":", "\"", "f", "e", "a", "t", "\"", ",", "\"", "d", "e", "s",
       "c", "r", "i", "p", "t", "i", "o", "n", "\"", ":", "\"", "a", "d",
       "d", " ", "l", "o", "g", "i", "n", " ", "a", "u", "d", "i", "t", " ",
       "h", "o", "o", "k", "\"", ",", "\"", "s", "u", "m", "m", "a", "r",
       "y", "\"", ":", "\"", "l", "o", "g", "s", " ", "a", "u", "t", "h",
       " ", "e", "v", "e", "n", "t", "s", "\"", ",", "\"", "b", "o", "d",
       "y", "\"", ":", "\"", "a", "d", "d", "s", " ", "p", "u", "b", "l",
       "i", "s", "h", "e", "r", "\"", "}">>,
     <<" ", " ", " ">>,
     <<"F", "i", "x", " ", "t", "h", "e", " ", "p", "a", "r", "s", "e", "r",
       ".">>,
     <<"r", "e", "f", "a", "c", "t", "o", "r", "e", "d", " ", "l", "o", "g",
       "i", "n", ";", " ", "d", "o", "c", "s", " ", "u", "p", "d", "a", "t",
       "e", "d">>,
     <<"}", " ", "o", "o", "p", "s", " ", "{">>,
     <<"{", "n", "o", "t", " ", "j", "s", "o", "n", "}">>,
     <<"{", "\"", "d", "e", "s", "c", "r", "i", "p", "t", "i", "o", "n",
       "\"", ":", " ", "5", "}">>,
     <<"{", "\"", "c", "o", "m", "m", "i", "t", "_", "t", "y", "p", "e",
       "\"", ":", "\"", "f", "i", "x", "\"", "}">>,
     <<"{", "\"", "c", "o", "m", "m", "i", "t", "_", "t", "y", "p", "e",
       "\"", ":", "\"", "d", "o", "c", "s", "\"", ",", "\"", "s", "u", "m",
       "m", "a", "r", "y", "\"", ":", "\"", "w", "h", "y", " ", "i", "t",
       " ", "m", "a", "t", "t", "e", "r", "s", "\"", "}">>,
     <<"S", "u", "r", "e", ":", " ", "{", "\"", "C", "o", "m", "m", "i",
       "t", "_", "T", "y", "p", "e", "\"", ":", "\"", "F", "e", "a", "t",
       "u", "r", "e", "\"", ",", "\"", "d", "e", "s", "c", "r", "i", "p",
       "t", "i", "o", "n", "\"", ":", "\"", "A", "d", "d", " ", "x", ".",
       "\"", "}", " ", "t", "h", "a", "n", "k", "s">>,
     <<"{", "\"", "d", "e", "s", "c", "r", "i", "p", "t", "i", "o", "n",
       "\"", ":", "\"", "a", "\"", ",", "\"", "d", "e", "s", "c", "r", "i",
       "p", "t", "i", "o", "n", "\"", ":", "\"", "\"", "}">>,
     <<"{", "\"", "d", "e", "s", "c", "r", "i", "p", "t", "i", "o", "n",
       "\"", ":", "\"", "m", "u", "l", "t", "i", "\"", ",", "\"", "b", "o",
       "d", "y", "\"", ":", "\"", "o", "n", "e", "\\", "n", "\\", "n", " ",
       "t", "w", "o", " ", " ", "w", "o", "r", "d", "s", "\\", "n", "t",
       "h", "r", "e", "e", "\"", "}">>,
     <<"{", "\"", "d", "e", "s", "c", "r", "i", "p", "t", "i", "o", "n",
       "\"", ":", "\"", "x", "\"", ",", "}">>,
     <<"{", "}">>}

\* {"description":"<d>"} for a text d
DescriptionObject(d) ==
    <<"{", "\"", "d", "e", "s", "c", "r", "i", "p", "t", "i", "o", "n", "\"",
      ":", "\"">> \o d \o <<"\"", "}">>

\* {"description":"x","body":"<b>"} for a body b written with JSON escapes
BodyObject(b) ==
    <<"{", "\"", "d", "e", "s", "c", "r", "i", "p", "t", "i", "o", "n", "\"",
      ":", "\"", "x", "\"", ",", "\"", "b", "o", "d", "y", "\"", ":", "\"">>
      \o b \o <<"\"", "}">>

\* bodies: two lines that together exceed the limit of one line, one line
\* over the limit, and lines separated by a blank line
BodyTexts ==
    {Rep("a", BodyLineLimit \div 2 + 1) \o <<"\\", "n">>
       \o Rep("a", BodyLineLimit \div 2 + 1),
     Rep("a", BodyLineLimit + 1),
     <<"a", "\\", "n", "\\", "n", " ", "b">>}

RawTexts ==
    CuratedRaw \cup ShortTexts \cup {DescriptionObject(d) : d \in ShortTexts}
      \cup {DescriptionObject(d) : d \in TextsNear(DescriptionLimit)}
      \cup {BodyObject(b) : b \in BodyTexts}

\* Parts values: every description with a few types and summaries, and
\* every token with a fixed description
Summaries ==
    {<<>>, <<" ">>, <<"w", "h", "y", ".">>, Rep("a", DescriptionLimit + 1)}

PartsInputs ==
    {Parts(t, d, s, <<>>) :
        t \in {<<>>, W_fix}, d \in ShortTexts \cup TextsNear(DescriptionLimit),
        s \in Summaries}
      \cup {Parts(t, <<"a">>, <<>>, <<>>) : t \in Tokens}
-----------------------------------------------------------------------------
(* Client.Generate *)

\* fragment texts carried by the "response" field
Frags == {<<>>, <<"a">>, <<" ">>}

\* The lines of a response body. shape "object": a JSON object with a string
\* "response" and a boolean "done"; "null": the JSON literal null; "badtype":
\* an object whose "done" is not a boolean (its "response" is well-formed);
\* "blank": an empty line; "garbage": not JSON.
WireLines ==
    [shape : {"object"}, response : Frags, done : BOOLEAN]
    \cup [shape : {"badtype"}, response : {<<"a">>}, done : {TRUE}]
    \cup [shape : {"null", "blank", "garbage"}, response : {<<>>}, done : {FALSE}]

\* json.Unmarshal(line, &chunk): whether it returns nil, and the chunk then
DecodeOk(l) == l.shape \in {"object", "null"}

Chunk(l) ==
    IF l.shape = "object" THEN [Response |-> l.response, Done |-> l.done]
    ELSE [Response |-> <<>>, Done |-> FALSE]

Bodies == UNION {[1..n -> WireLines] : n \in 0..MaxLines}

StatusCodes == {101, 200, 299, 300, 404, 500}

Endings == {"eof", "cancelled", "toolong"}

NoRet == [text |-> <<>>, err |-> "pending", code |-> 0, body |-> <<>>]

Ret(text, err) == [text |-> text, err |-> err, code |-> 0, body |-> <<>>]

InitGenVars ==
    /\ gpc = "start"
    /\ transport \in {"ok", "neterr"}
    /\ status \in StatusCodes
    /\ lines \in Bodies
    /\ ending \in Endings
    /\ transport = "neterr" => (status = 200 /\ lines = <<>> /\ ending = "eof")
    /\ status # 200 => ending = "eof"
    /\ pos = 0
    /\ scErr = "none"
    /\ out = <<>>
    /\ broke = FALSE
    /\ gret = NoRet

IdleGenVars ==
    /\ gpc = "idle"
    /\ transport = "ok"
    /\ status = 200
    /\ lines = <<>>
    /\ ending = "eof"
    /\ pos = 0
    /\ scErr = "none"
    /\ out = <<>>
    /\ broke = FALSE
    /\ gret = NoRet

\* c.http.Do fails: return "", err
GenDoFails ==
    /\ gpc = "start"
    /\ transport = "neterr"
    /\ gpc' = "returned"
    /\ gret' = Ret(<<>>, "neterr")
    /\ UNCHANGED <<transport, status, lines, ending, pos, scErr, out, broke>>

\* resp.StatusCode >= 300: read the whole body and return it in the error
GenStatusError ==
    /\ gpc = "start"
    /\ transport = "ok"
    /\ status >= 300
    /\ gpc' = "returned"
    /\ gret' = [text |-> <<>>, err |-> "status", code |-> status, body |-> lines]
    /\ UNCHANGED <<transport, status, lines, ending, pos, scErr, out, broke>>

\* the status check passes: the scanner is created
GenOpenStream ==
    /\ gpc = "start"
    /\ transport = "ok"
    /\ status < 300
    /\ gpc' = "scanning"
    /\ UNCHANGED <<transport, status, lines, ending, pos, scErr, out, broke, gret>>

\* The reader reports its error (the request's context was cancelled or timed
\* out) while lines the scanner has already buffered are still to be delivered.
GenReadError ==
    /\ gpc = "scanning"
    /\ ~broke
    /\ ending = "cancelled"
    /\ scErr = "none"
    /\ scErr' = ending
    /\ UNCHANGED <<gpc, transport, status, lines, ending, pos, out, broke, gret>>

\* one iteration of `for sc.Scan()`: a line that does not decode is skipped,
\* one that does is appended, and a done chunk leaves the loop
GenScanLineMut ==
    /\ gpc = "scanning"
    /\ ~broke
    /\ pos < Len(lines)
    /\ pos' = pos + 1
    /\ LET l == lines[pos + 1] IN
         IF ~DecodeOk(l)
           THEN UNCHANGED <<out, broke>>
           ELSE /\ out' = out \o Chunk(l).Response
                /\ broke' = FALSE
    /\ UNCHANGED <<gpc, transport, status, lines, ending, scErr, gret>>

GenScanLine ==
    /\ gpc = "scanning"
    /\ ~broke
    /\ pos < Len(lines)
    /\ pos' = pos + 1
    /\ LET l == lines[pos + 1] IN
         IF ~DecodeOk(l)
           THEN UNCHANGED <<out, broke>>
           ELSE /\ out' = out \o Chunk(l).Response
                /\ broke' = Chunk(l).Done
    /\ UNCHANGED <<gpc, transport, status, lines, ending, scErr, gret>>

\* what sc.Err() holds once the loop is left: the error already recorded, or
\* the one met by the sc.Scan() that returned false ("toolong": bufio.ErrTooLong)
ErrAfterLoopMut == "none"

ErrAfterLoop == IF scErr # "none" THEN scErr ELSE IF broke THEN "none" ELSE ending

\* sc.Scan() returned false or the loop broke: check sc.Err() and return
GenFinish ==
    /\ gpc = "scanning"
    /\ broke \/ pos = Len(lines)
    /\ gpc' = "returned"
    /\ LET e == ErrAfterLoop IN
         /\ scErr' = (IF e = "eof" THEN "none" ELSE e)
         /\ gret' = IF e \in {"none", "eof"}
                      THEN Ret(TrimSpace(out), "none")
                      ELSE Ret(<<>>, e)
    /\ UNCHANGED <<transport, status, lines, ending, pos, out, broke>>

NextGen ==
    \/ GenDoFails /\ UNCHANGED <<execVars, msgVars>>
    \/ GenStatusError /\ UNCHANGED <<execVars, msgVars>>
    \/ GenOpenStream /\ UNCHANGED <<execVars, msgVars>>
    \/ GenReadError /\ UNCHANGED <<execVars, msgVars>>
    \/ GenScanLine /\ UNCHANGED <<execVars, msgVars>>
    \/ GenFinish /\ UNCHANGED <<execVars, msgVars>>

-----------------------------------------------------------------------------
(* The pure functions of package commit, applied to the inputs *)

NoMessage == [Headline |-> <<>>, Body |-> <<>>]

MRes(op, order, text, err, parts, msg) ==
    [op |-> op, order |-> order, text |-> text, err |-> err, parts |-> parts,
     msg |-> msg]

NoRes == MRes("none", <<>>, <<>>, "none", EmptyParts, NoMessage)

InitMsgVars ==
    /\ mres = NoRes
    /\ \/ /\ mBranch \in Branches
          /\ mParts \in PartsInputs
          /\ mRaw = <<>>
          /\ mToken = <<>>
       \/ /\ mBranch = <<>>
          /\ mParts = EmptyParts
          /\ mRaw \in RawTexts
          /\ mToken = <<>>
       \/ /\ mBranch = <<>>
          /\ mParts = EmptyParts
          /\ mRaw = <<>>
          /\ mToken \in Tokens

IdleMsgVars ==
    /\ mres = NoRes
    /\ mBranch = <<>>
    /\ mParts = EmptyParts
    /\ mRaw = <<>>
    /\ mToken = <<>>

ApplyNormaliseCommitType ==
    /\ mres.op = "none"
    /\ \E order \in IterationOrders :
         mres' = MRes("normaliseCommitType", order,
                      normaliseCommitType(mToken, order), "none", EmptyParts,
                      NoMessage)
    /\ UNCHANGED <<mBranch, mParts, mRaw, mToken>>

ApplyExtractTicket ==
    /\ mres.op = "none"
    /\ mres' = MRes("extractTicket", <<>>, extractTicket(mBranch), "none",
                    EmptyParts, NoMessage)
    /\ UNCHANGED <<mBranch, mParts, mRaw, mToken>>

ApplyParseParts ==
    /\ mres.op = "none"
    /\ \E order \in IterationOrders :
         LET r == ParseParts(mRaw, order) IN
         mres' = MRes("ParseParts", order, <<>>, r.err, r.parts, NoMessage)
    /\ UNCHANGED <<mBranch, mParts, mRaw, mToken>>

ApplyFallbackParts ==
    /\ mres.op = "none"
    /\ \E order \in IterationOrders :
         mres' = MRes("FallbackParts", order, <<>>, "none",
                      FallbackParts(mRaw, order), NoMessage)
    /\ UNCHANGED <<mBranch, mParts, mRaw, mToken>>

ApplyBuildMessage ==
    /\ mres.op = "none"
    /\ \E order \in IterationOrders :
         mres' = MRes("BuildMessage", order, <<>>, "none", EmptyParts,
                      BuildMessage(mBranch, mParts, order))
    /\ UNCHANGED <<mBranch, mParts, mRaw, mToken>>

NextMsg ==
    \/ ApplyNormaliseCommitType /\ UNCHANGED <<genVars, execVars>>
    \/ ApplyExtractTicket /\ UNCHANGED <<genVars, execVars>>
    \/ ApplyParseParts /\ UNCHANGED <<genVars, execVars>>
    \/ ApplyFallbackParts /\ UNCHANGED <<genVars, execVars>>
    \/ ApplyBuildMessage /\ UNCHANGED <<genVars, execVars>>

-----------------------------------------------------------------------------
(* Service.Execute: internal/usecase/service.go *)

TruncatedMarker ==
    <<"\n", Ellipsis>> \o
    <<"[", "d", "i", "f", "f", " ", "t", "r", "u", "n", "c", "a", "t", "e",
      "d", "]">>

\* util.TrimTo, for texts of one-byte characters
TrimTo(s, max) ==
    IF max <= 0 \/ Len(s) <= max THEN s
    ELSE LET head == SubSeq(s, 1, max)
             idx == LastIndexChar(head, "\n")
         IN (IF idx > 1 THEN SubSeq(head, 1, idx - 1) ELSE head) \o TruncatedMarker

\* what Repo.StagedDiff and Repo.CurrentBranch may return
DiffTexts == {<<>>, <<" ", "\n">>, <<"a", "b", "\n", "c", "d">>}

ExecBranches ==
    {<<"m", "a", "i", "n">>,
     <<"f", "e", "a", "t", "u", "r", "e", "/", "T", "E", "S", "-", "1", "2",
       "3", "-", "l", "o", "g", "i", "n">>}

\* opts.MaxBytes
MaxBytesOptions == {0, 4}

\* what a successful review call may return
ReviewTexts == {<<>>, <<" ", "o", "k">>}

\* the errors an LLM call may return
CallErrors == {"neterr", "status", "deadline"}

EmptyResult ==
    [Review |-> <<>>, ReviewErr |-> "none", Message |-> NoMessage,
     DiffUsed |-> <<>>, Branch |-> <<>>]

Call(purpose, ctxExpired) ==
    [purpose |-> purpose, ctxExpired |-> ctxExpired, outcome |-> "pending"]

InitExecVars ==
    /\ epc = "start"
    /\ initialized \in BOOLEAN
    /\ optReview \in BOOLEAN
    /\ optMaxBytes \in MaxBytesOptions
    /\ expired = FALSE
    /\ calls = <<>>
    /\ eRaw = <<>>
    /\ parsePath = "none"
    /\ eResult = EmptyResult
    /\ eErr = "none"

IdleExecVars ==
    /\ epc = "idle"
    /\ initialized = FALSE
    /\ optReview = FALSE
    /\ optMaxBytes = 0
    /\ expired = FALSE
    /\ calls = <<>>
    /\ eRaw = <<>>
    /\ parsePath = "none"
    /\ eResult = EmptyResult
    /\ eErr = "none"

\* return Result{}, err
Fail(e) ==
    /\ epc' = "done"
    /\ eResult' = EmptyResult
    /\ eErr' = e

\* the deadline of ctx passes (main sets it before Execute runs)
DeadlineFires ==
    /\ epc \in {"start", "branch", "review", "reviewing", "generate", "generating"}
    /\ ~expired
    /\ expired' = TRUE
    /\ UNCHANGED <<epc, initialized, optReview, optMaxBytes, calls, eRaw,
                   parsePath, eResult, eErr>>

\* s == nil || s.Repo == nil || s.LLM == nil
ExecNotInitialized ==
    /\ epc = "start"
    /\ ~initialized
    /\ Fail("service not properly initialized")
    /\ UNCHANGED <<initialized, optReview, optMaxBytes, expired, calls, eRaw,
                   parsePath>>

\* s.Repo.StagedDiff, the blank check and util.TrimTo
ExecReadDiffMut ==
    /\ epc = "start"
    /\ initialized
    /\ \/ Fail("git diff error")
       \/ /\ ~expired
          /\ \E d \in DiffTexts :
               /\ epc' = "branch"
               /\ eResult' = [eResult EXCEPT !.DiffUsed = TrimTo(d, optMaxBytes)]
               /\ eErr' = eErr
    /\ UNCHANGED <<initialized, optReview, optMaxBytes, expired, calls, eRaw,
                   parsePath>>

ExecReadDiff ==
    /\ epc = "start"
    /\ initialized
    /\ \/ Fail("git diff error")
       \/ /\ ~expired
          /\ \E d \in DiffTexts :
               IF TrimSpace(d) = <<>>
                 THEN Fail("no staged changes detected")
                 ELSE /\ epc' = "branch"
                      /\ eResult' = [eResult EXCEPT !.DiffUsed = TrimTo(d, optMaxBytes)]
                      /\ eErr' = eErr
    /\ UNCHANGED <<initialized, optReview, optMaxBytes, expired, calls, eRaw,
                   parsePath>>

\* s.Repo.CurrentBranch, and the choice `if opts.Review`
ExecReadBranchMut ==
    /\ epc = "branch"
    /\ \/ Fail("git rev-parse failed")
       \/ /\ ~expired
          /\ \E b \in ExecBranches :
               /\ epc' = "review"
               /\ eResult' = [eResult EXCEPT !.Branch = b]
               /\ eErr' = eErr
    /\ UNCHANGED <<initialized, optReview, optMaxBytes, expired, calls, eRaw,
                   parsePath>>

ExecReadBranch ==
    /\ epc = "branch"
    /\ \/ Fail("git rev-parse failed")
       \/ /\ ~expired
          /\ \E b \in ExecBranches :
               /\ epc' = IF optReview THEN "review" ELSE "generate"
               /\ eResult' = [eResult EXCEPT !.Branch = b]
               /\ eErr' = eErr
    /\ UNCHANGED <<initialized, optReview, optMaxBytes, expired, calls, eRaw,
                   parsePath>>

\* the review request is handed to s.LLM.Generate
ExecReviewCall ==
    /\ epc = "review"
    /\ epc' = "reviewing"
    /\ calls' = Append(calls, Call("review", expired))
    /\ UNCHANGED <<initialized, optReview, optMaxBytes, expired, eRaw,
                   parsePath, eResult, eErr>>

\* What a call to the client may return: a text only while the context is
\* live (c.http.Do and the body's reads fail once it is done), the error of
\* the context only once it is done, and nothing else if the call was made
\* with the context already done.
MayReturn(call, outcome) ==
    /\ call.outcome = "pending"
    /\ outcome = "ok" => ~expired
    /\ outcome = "deadline" => expired
    /\ call.ctxExpired => outcome = "deadline"

Returned(outcome) == [calls EXCEPT ![Len(calls)].outcome = outcome]

\* the review call returns: its error is kept in result.ReviewErr, its text,
\* trimmed, in result.Review
ExecReviewReturnMut ==
    /\ epc = "reviewing"
    /\ \/ \E e \in CallErrors :
            /\ MayReturn(calls[Len(calls)], e)
            /\ calls' = Returned(e)
            /\ Fail(e)
       \/ \E t \in ReviewTexts :
            /\ MayReturn(calls[Len(calls)], "ok")
            /\ calls' = Returned("ok")
            /\ epc' = "generate"
            /\ eResult' = [eResult EXCEPT !.Review = TrimSpace(t)]
            /\ eErr' = eErr
    /\ UNCHANGED <<initialized, optReview, optMaxBytes, expired, eRaw, parsePath>>

ExecReviewReturn ==
    /\ epc = "reviewing"
    /\ \/ \E e \in CallErrors :
            /\ MayReturn(calls[Len(calls)], e)
            /\ calls' = Returned(e)
            /\ eResult' = [eResult EXCEPT !.ReviewErr = e]
       \/ \E t \in ReviewTexts :
            /\ MayReturn(calls[Len(calls)], "ok")
            /\ calls' = Returned("ok")
            /\ eResult' = [eResult EXCEPT !.Review = TrimSpace(t)]
    /\ epc' = "generate"
    /\ UNCHANGED <<initialized, optReview, optMaxBytes, expired, eRaw,
                   parsePath, eErr>>

\* the generation request is handed to s.LLM.Generate, whatever the state of
\* the context
ExecGenCallMut ==
    /\ epc = "generate"
    /\ IF expired
         THEN Fail("deadline") /\ UNCHANGED calls
         ELSE /\ epc' = "generating"
              /\ calls' = Append(calls, Call("generate", expired))
              /\ UNCHANGED <<eResult, eErr>>
    /\ UNCHANGED <<initialized, optReview, optMaxBytes, expired, eRaw, parsePath>>

ExecGenCall ==
    /\ epc = "generate"
    /\ epc' = "generating"
    /\ calls' = Append(calls, Call("generate", expired))
    /\ UNCHANGED <<initialized, optReview, optMaxBytes, expired, eRaw,
                   parsePath, eResult, eErr>>

\* the generation call fails: return Result{}, err
ExecGenFailsMut ==
    /\ epc = "generating"
    /\ \E e \in CallErrors :
         /\ MayReturn(calls[Len(calls)], e)
         /\ calls' = Returned(e)
         /\ epc' = "done"
         /\ eErr' = e
         /\ parsePath' = "fallback"
         /\ eResult' = [eResult EXCEPT
                          !.Message = BuildMessage(eResult.Branch,
                                                   FallbackParts(<<>>, DeclarationOrder),
                                                   DeclarationOrder)]
    /\ UNCHANGED <<initialized, optReview, optMaxBytes, expired, eRaw>>

ExecGenFails ==
    /\ epc = "generating"
    /\ \E e \in CallErrors :
         /\ MayReturn(calls[Len(calls)], e)
         /\ calls' = Returned(e)
         /\ Fail(e)
    /\ UNCHANGED <<initialized, optReview, optMaxBytes, expired, eRaw, parsePath>>

\* the generation call returns a text: ParseParts, else FallbackParts, then
\* BuildMessage
ExecGenSucceeds ==
    /\ epc = "generating"
    /\ MayReturn(calls[Len(calls)], "ok")
    /\ calls' = Returned("ok")
    /\ \E raw \in RawTexts, order \in IterationOrders :
         LET parsed == ParseParts(raw, order)
             parts == IF parsed.err # "none" THEN FallbackParts(raw, order)
                      ELSE parsed.parts
         IN /\ eRaw' = raw
            /\ parsePath' = IF parsed.err # "none" THEN "fallback" ELSE "strict"
            /\ eResult' = [eResult EXCEPT
                             !.Message = BuildMessage(eResult.Branch, parts, order)]
    /\ epc' = "done"
    /\ UNCHANGED <<initialized, optReview, optMaxBytes, expired, eErr>>

NextExec ==
    \/ DeadlineFires /\ UNCHANGED <<genVars, msgVars>>
    \/ ExecNotInitialized /\ UNCHANGED <<genVars, msgVars>>
    \/ ExecReadDiff /\ UNCHANGED <<genVars, msgVars>>
    \/ ExecReadBranch /\ UNCHANGED <<genVars, msgVars>>
    \/ ExecReviewCall /\ UNCHANGED <<genVars, msgVars>>
    \/ ExecReviewReturn /\ UNCHANGED <<genVars, msgVars>>
    \/ ExecGenCall /\ UNCHANGED <<genVars, msgVars>>
    \/ ExecGenFails /\ UNCHANGED <<genVars, msgVars>>
    \/ ExecGenSucceeds /\ UNCHANGED <<genVars, msgVars>>

-----------------------------------------------------------------------------
(* Specifications *)

\* one call of Client.Generate
InitGen == InitGenVars /\ IdleExecVars /\ IdleMsgVars

SpecGen == InitGen /\ [][NextGen]_vars

\* one run of Service.Execute
Init == IdleGenVars /\ InitExecVars /\ IdleMsgVars

Next == NextExec

Spec == Init /\ [][Next]_vars

\* one application of a function of package commit
InitMsg == IdleGenVars /\ IdleExecVars /\ InitMsgVars

SpecMsg == InitMsg /\ [][NextMsg]_vars

-----------------------------------------------------------------------------
(* Claims about Client.Generate *)

\* The text the wire protocol defines for a body: the "response" values of
\* the JSON objects, in order, up to and including the first with done=true.
RECURSIVE Aggregate(_)
Aggregate(ls) ==
    IF ls = <<>> THEN <<>>
    ELSE LET l == Head(ls) IN
         IF l.shape = "object"
           THEN IF l.done THEN l.response ELSE l.response \o Aggregate(Tail(ls))
           ELSE Aggregate(Tail(ls))

HasDoneRecord(ls) == \E i \in 1..Len(ls) : ls[i].shape = "object" /\ ls[i].done

\* C1: a successful Generate returns the trimmed concatenation, in arrival
\* order, of the response text of the lines that decode, up to and including
\* the first done=true record; undecodable lines add nothing and do not end
\* the read, and nothing after the first done=true record is added.
C1_GenerateAggregates ==
    (gpc = "returned" /\ gret.err = "none") =>
        /\ gret.text = TrimSpace(Aggregate(lines))
        /\ (HasDoneRecord(lines) => broke)
        /\ (~HasDoneRecord(lines) => pos = Len(lines))

\* a success whose body holds an undecodable line before a fragment, and a
\* done record followed by one more fragment that must not be added
C1_Witness ==
    /\ gpc = "returned"
    /\ gret.err = "none"
    /\ Len(lines) = 3
    /\ lines[1].shape = "garbage"
    /\ lines[2] = [shape |-> "object", response |-> <<"a">>, done |-> TRUE]
    /\ lines[3] = [shape |-> "object", response |-> <<"a">>, done |-> FALSE]
    /\ gret.text = <<"a">>

\* C2: when cancellation or a read error ends the stream before a done=true
\* record, Generate returns the error and an empty string, whatever was
\* accumulated; no error return ever carries text.
C2_ErrorDiscardsPartial ==
    gpc = "returned" =>
        /\ (gret.err # "none" => gret.text = <<>>)
        /\ (transport = "ok" /\ status < 300 /\ ending # "eof"
              /\ ~HasDoneRecord(lines))
             => (gret.err = ending /\ gret.text = <<>>)

\* the stream was cancelled after a non-blank fragment had been accumulated
C2_Witness ==
    /\ gpc = "returned"
    /\ ending = "cancelled"
    /\ ~HasDoneRecord(lines)
    /\ TrimSpace(out) # <<>>
    /\ gret.err = "cancelled"
    /\ gret.text = <<>>

-----------------------------------------------------------------------------
(* Claims about Service.Execute *)

IsReview(c) == c.purpose = "review"

IsGenerate(c) == c.purpose = "generate"

ReviewCalls == SelectSeq(calls, IsReview)

GenerateCalls == SelectSeq(calls, IsGenerate)

\* C3: when the generation call returns an error, Execute returns that error
\* and the empty Result, whatever the review call returned; neither
\* ParseParts nor FallbackParts produces a message.
C3_GenerationFailureIsFatal ==
    (epc = "done" /\ GenerateCalls # <<>>
        /\ GenerateCalls[1].outcome \in CallErrors) =>
        /\ eErr = GenerateCalls[1].outcome
        /\ eResult = EmptyResult
        /\ parsePath = "none"

\* the generation call failed after a review that had succeeded
C3_Witness ==
    /\ epc = "done"
    /\ Len(calls) = 2
    /\ calls[1] = [purpose |-> "review", ctxExpired |-> FALSE, outcome |-> "ok"]
    /\ calls[2] = [purpose |-> "generate", ctxExpired |-> FALSE, outcome |-> "status"]
    /\ eErr = "status"
    /\ eResult.Message = NoMessage

\* C4: a failed review call is recorded in Result.ReviewErr and the
\* generation call is still issued; if that call succeeds Execute returns
\* success with a Message.
C4_ReviewFailureNotFatal ==
    (ReviewCalls # <<>> /\ ReviewCalls[1].outcome \in CallErrors) =>
        /\ epc \in {"generate", "generating", "done"}
        /\ epc # "done" => eResult.ReviewErr = ReviewCalls[1].outcome
        /\ epc \in {"generating", "done"} => GenerateCalls # <<>>
        /\ (epc = "done" /\ GenerateCalls[1].outcome = "ok") =>
              /\ eErr = "none"
              /\ eResult.ReviewErr = ReviewCalls[1].outcome
              /\ eResult.Message.Headline # <<>>

\* the review failed, the generation succeeded and Execute returned a message
C4_Witness ==
    /\ epc = "done"
    /\ Len(calls) = 2
    /\ calls[1].purpose = "review"
    /\ calls[1].outcome = "neterr"
    /\ calls[2].outcome = "ok"
    /\ eErr = "none"
    /\ eResult.ReviewErr = "neterr"
    /\ eResult.Message.Headline # <<>>

\* C5, as claimed: once the deadline has elapsed during the review call, no
\* generation call is issued to the LLM client.
C5_NoGenerationAfterDeadline ==
    (ReviewCalls # <<>> /\ ReviewCalls[1].outcome = "deadline") =>
        GenerateCalls = <<>>

\* C5, amended: Execute makes no deadline check of its own. After the review
\* call has returned it always issues the generation call, with the context
\* as it is; a call made with the deadline passed is failed by the client
\* with the context's error, and Execute returns that error and the empty
\* Result.
C5_GenerationIssuedRegardless ==
    /\ (epc = "done" /\ ReviewCalls # <<>>) => GenerateCalls # <<>>
    /\ (epc = "done" /\ GenerateCalls # <<>> /\ GenerateCalls[1].ctxExpired) =>
          /\ GenerateCalls[1].outcome = "deadline"
          /\ eErr = "deadline"
          /\ eResult = EmptyResult

\* the deadline passed during the review call and the generation call was
\* issued all the same
C5_Witness ==
    /\ epc = "done"
    /\ Len(calls) = 2
    /\ calls[1] = [purpose |-> "review", ctxExpired |-> FALSE, outcome |-> "deadline"]
    /\ calls[2] = [purpose |-> "generate", ctxExpired |-> TRUE, outcome |-> "deadline"]
    /\ eErr = "deadline"

\* C6: at most two calls, never two at once: at most one review call, only
\* when opts.Review is set, and at most one generation call, begun only after
\* the review call has returned; a successful run holds exactly one
\* generation call (one call without review, two with) and nothing is
\* retried.
C6_AtMostTwoSequentialCalls ==
    /\ Len(calls) <= 2
    /\ Len(ReviewCalls) <= 1
    /\ Len(GenerateCalls) <= 1
    /\ \A i \in 1..Len(calls) : calls[i].outcome = "pending" => i = Len(calls)
    /\ \A i \in 1..Len(calls) : IsReview(calls[i]) => (optReview /\ i = 1)
    /\ \A i \in 1..Len(calls) :
          IsGenerate(calls[i]) => i = (IF optReview THEN 2 ELSE 1)
    /\ (epc = "done" /\ eErr = "none") =>
          /\ Len(calls) = (IF optReview THEN 2 ELSE 1)
          /\ Len(GenerateCalls) = 1
          /\ GenerateCalls[1].outcome = "ok"

\* a successful run with review enabled: two calls, the review first
C6_Witness ==
    /\ epc = "done"
    /\ eErr = "none"
    /\ optReview
    /\ Len(calls) = 2
    /\ calls[1].purpose = "review"
    /\ calls[2].purpose = "generate"

\* the strict-parse failures the claim lists: an error of ParseParts (empty
\* response, no JSON object, JSON decode error) and a description that is
\* empty once normalised
StrictParseFails(raw) ==
    \E order \in IterationOrders :
        \/ ParseParts(raw, order).err # "none"
        \/ ParseParts(raw, order).parts.Description = <<>>

\* C7, as claimed: whenever the generation call succeeds Execute succeeds
\* with a Message, and each strict-parse failure, a missing description
\* included, is answered by FallbackParts.
C7_EveryParseFailureFallsBack ==
    (epc = "done" /\ GenerateCalls # <<>> /\ GenerateCalls[1].outcome = "ok") =>
        /\ eErr = "none"
        /\ eResult.Message.Headline # <<>>
        /\ StrictParseFails(eRaw) => parsePath = "fallback"

\* What the code does for C7: Execute succeeds with a Message for every text,
\* and the failures ParseParts does report are answered by FallbackParts.
C7_ReportedFailuresFallBack ==
    (epc = "done" /\ GenerateCalls # <<>> /\ GenerateCalls[1].outcome = "ok") =>
        /\ eErr = "none"
        /\ eResult.Message.Headline # <<>>
        /\ \A order \in IterationOrders :
              ParseParts(eRaw, order).err # "none" =>
                /\ parsePath = "fallback"
                /\ eResult.Message
                     = BuildMessage(eResult.Branch, FallbackParts(eRaw, order), order)

-----------------------------------------------------------------------------
(* Claims about package commit *)

\* C8, as claimed: every Parts that ParseParts returns without an error has a
\* non-empty description.
C8_ParsedDescriptionNonEmpty ==
    (mres.op = "ParseParts" /\ mres.err = "none") => mres.parts.Description # <<>>

NoOuterSpace(h) == h # <<>> /\ h[1] \notin Whitespace /\ h[Len(h)] \notin Whitespace

\* C9, as claimed: the headline is non-empty, has no whitespace at either
\* end, and is exactly "<ticket> [<commitType>] <description>".
C9_HeadlineIsConcatenation ==
    mres.op = "BuildMessage" =>
        /\ NoOuterSpace(mres.msg.Headline)
        /\ mres.msg.Headline
             = extractTicket(mBranch) \o <<" ", "[">>
                 \o normaliseCommitType(mParts.CommitType, mres.order)
                 \o <<"]", " ">> \o BuildDescription(mParts)

\* C9, amended: the headline is non-empty, has no whitespace at either end,
\* and is "<ticket> [<commitType>] <description>" with the whitespace at the
\* start of the ticket and at the end of the description removed.
C9_HeadlineIsTrimmedConcatenation ==
    mres.op = "BuildMessage" =>
        /\ NoOuterSpace(mres.msg.Headline)
        /\ mres.msg.Headline
             = TrimLeftSpace(extractTicket(mBranch)) \o <<" ", "[">>
                 \o normaliseCommitType(mParts.CommitType, mres.order)
                 \o <<"]", " ">> \o TrimRightSpace(BuildDescription(mParts))

\* a description that ends in a space once its trailing period is stripped
C9_Witness ==
    /\ mres.op = "BuildMessage"
    /\ mParts.Description = <<"a", " ", ".">>
    /\ BuildDescription(mParts) = <<"a", " ">>
    /\ mBranch = <<"f", "e", "a", "t", "u", "r", "e", "/", "T", "E", "S", "-", "1", "2", "3", "-", "l", "o", "g", "i", "n">>
    /\ mres.msg.Headline = <<"T", "E", "S", "-", "1", "2", "3", " ", "[", "c", "h", "o", "r", "e", "]", " ", "a">>

CommitTypes ==
    {W_feat, W_fix, W_perf, W_refactor, W_docs, W_test, W_build, W_chore, W_ci}

\* C10: normaliseCommitType returns one of the nine commit types for every
\* token, and so do the CommitType of the Parts of ParseParts and of
\* FallbackParts and the bracketed type of BuildMessage's headline.
C10_CommitTypeInEnumeration ==
    /\ mres.op = "normaliseCommitType" => mres.text \in CommitTypes
    /\ (mres.op = "ParseParts" /\ mres.err = "none") =>
          mres.parts.CommitType \in CommitTypes
    /\ mres.op = "FallbackParts" => mres.parts.CommitType \in CommitTypes
    /\ mres.op = "BuildMessage" =>
          \E t \in CommitTypes :
              HasPrefix(mres.msg.Headline,
                        TrimLeftSpace(extractTicket(mBranch))
                          \o <<" ", "[">> \o t \o <<"]">>)

\* a token that matches no key of the table resolves to the default
C10_Witness ==
    /\ mres.op = "normaliseCommitType"
    /\ mToken = <<"s", "t", "y", "l", "e">>
    /\ mres.text = W_chore

-----------------------------------------------------------------------------
(* Claims about normaliseCommitType *)

\* the token as normaliseCommitType looks it up
Candidate(t) == TrimBrackets(ToLower(TrimSpace(t)))

TableIndexes == 1..Len(allowedCommitTypes)

ExactKey(c) == \E i \in TableIndexes : allowedCommitTypes[i].key = c

\* the values of the keys the candidate is a prefix of / that are a prefix
\* of the candidate
ValuesOfKeysExtending(c) ==
    {allowedCommitTypes[i].value :
        i \in {j \in TableIndexes : HasPrefix(allowedCommitTypes[j].key, c)}}

ValuesOfKeysWithin(c) ==
    {allowedCommitTypes[i].value :
        i \in {j \in TableIndexes : HasPrefix(c, allowedCommitTypes[j].key)}}

\* C11, as claimed: a cleaned token that is non-empty, matches no key
\* exactly and is a prefix of some key resolves to the value of such a key
\* ("refac" to "refactor", "bug" to "fix"), not to the default.
C11_TokenPrefixOfKeyResolves ==
    (/\ mres.op = "normaliseCommitType"
     /\ Candidate(mToken) # <<>>
     /\ ~ExactKey(Candidate(mToken))
     /\ ValuesOfKeysExtending(Candidate(mToken)) # {}) =>
        mres.text \in ValuesOfKeysExtending(Candidate(mToken))

\* C11, amended: a cleaned token that is non-empty and matches no key
\* exactly resolves to the value of a key that is a prefix of the token
\* ("features" to "feat", "documentation" to "docs") when there is such a
\* key, and to "chore" when there is none, also when the token is itself a
\* prefix of a key ("refac", "bug").
C11_KeyPrefixOfTokenResolves ==
    (/\ mres.op = "normaliseCommitType"
     /\ Candidate(mToken) # <<>>
     /\ ~ExactKey(Candidate(mToken))) =>
        IF ValuesOfKeysWithin(Candidate(mToken)) # {}
          THEN mres.text \in ValuesOfKeysWithin(Candidate(mToken))
          ELSE mres.text = W_chore

\* a token that extends the key "doc" and matches no key exactly
C11_Witness ==
    /\ mres.op = "normaliseCommitType"
    /\ mToken = <<"d", "o", "c", "u", "m", "e", "n", "t", "a", "t", "i", "o", "n">>
    /\ ~ExactKey(Candidate(mToken))
    /\ mres.text = W_docs

\* C12: normaliseCommitType returns a non-empty lower-case word for every
\* token, and applying it to its own result, under any iteration order,
\* returns that result.
C12_TotalAndIdempotent ==
    mres.op = "normaliseCommitType" =>
        /\ mres.text # <<>>
        /\ \A k \in 1..Len(mres.text) :
              IsLetter(mres.text[k]) /\ LowerChar(mres.text[k]) = mres.text[k]
        /\ \A order \in IterationOrders :
              normaliseCommitType(mres.text, order) = mres.text

\* a token that is not its own normal form
C12_Witness ==
    /\ mres.op = "normaliseCommitType"
    /\ mToken = <<"b", "u", "g", "f", "i", "x", "e", "s">>
    /\ mres.text = W_fix
    /\ mres.text # Candidate(mToken)
    /\ normaliseCommitType(mres.text, mres.order) = W_fix

\* C18: the keys that are a prefix of the cleaned token all map to one
\* value, and the result for a token is the same under every iteration
\* order of the table.
C18_IterationOrderIndependent ==
    mres.op = "normaliseCommitType" =>
        /\ Cardinality(ValuesOfKeysWithin(Candidate(mToken))) <= 1
        /\ \A order \in IterationOrders :
              normaliseCommitType(mToken, order) = mres.text

\* a token with two keys as prefixes, "feat" and "feature", evaluated with
\* the table visited in reverse
C18_Witness ==
    /\ mres.op = "normaliseCommitType"
    /\ mres.order = ReverseOrder
    /\ mToken = <<"f", "e", "a", "t", "u", "r", "e", "s">>
    /\ HasPrefix(Candidate(mToken), W_feat)
    /\ HasPrefix(Candidate(mToken), W_feature)
    /\ mres.text = W_feat

-----------------------------------------------------------------------------
(* Claims about the limits of description and body *)

\* what follows "<ticket> [<commitType>] " in the headline of BuildMessage
HeadlineLead ==
    TrimLeftSpace(extractTicket(mBranch)) \o <<" ", "[">>
      \o normaliseCommitType(mParts.CommitType, mres.order) \o <<"]", " ">>

HeadlineDescription ==
    SubSeq(mres.msg.Headline, Len(HeadlineLead) + 1, Len(mres.msg.Headline))

\* C13, as claimed: the description in the headline of BuildMessage has at
\* most 72 runes and does not end in a period, for every branch and Parts,
\* also when it is defaulted from the summary or from the literal.
C13_HeadlineDescriptionWithinLimit ==
    mres.op = "BuildMessage" =>
        /\ HasPrefix(mres.msg.Headline, HeadlineLead)
        /\ Len(HeadlineDescription) <= DescriptionLimit
        /\ HeadlineDescription # <<>>
        /\ HeadlineDescription[Len(HeadlineDescription)] # "."

\* C14, as claimed: the Body of the Parts that ParseParts returns without an
\* error has at most 300 runes in all, and each of its lines is non-empty
\* and has at most 300 runes.
C14_ParsedBodyWithinLimit ==
    (mres.op = "ParseParts" /\ mres.err = "none" /\ mres.parts.Body # <<>>) =>
        /\ Len(mres.parts.Body) <= BodyLineLimit
        /\ \A k \in 1..Len(SplitLines(mres.parts.Body)) :
              /\ SplitLines(mres.parts.Body)[k] # <<>>
              /\ Len(SplitLines(mres.parts.Body)[k]) <= BodyLineLimit

-----------------------------------------------------------------------------
(* Claims about extractTicket *)

HasSlash(s) == \E i \in 1..Len(s) : s[i] = "/"

\* w is letters, a hyphen, digits
IsTicketWord(w) ==
    \E h \in 2..(Len(w) - 1) :
        /\ w[h] = "-"
        /\ \A i \in 1..(h - 1) : IsLetter(w[i])
        /\ \A i \in (h + 1)..Len(w) : IsDigit(w[i])

StartsWithTicket(s) == \E k \in 1..Len(s) : IsTicketWord(SubSeq(s, 1, k))

\* the ticket a segment starts with: its longest prefix that is a ticket word
LeadingTicket(s) ==
    CHOOSE w \in {SubSeq(s, 1, k) : k \in 1..Len(s)} :
        /\ IsTicketWord(w)
        /\ \A k \in (Len(w) + 1)..Len(s) : ~IsTicketWord(SubSeq(s, 1, k))

\* the ticket rule applied to a segment
TicketOf(seg) == IF StartsWithTicket(seg) THEN LeadingTicket(seg) ELSE seg

\* what follows the last "/" of s
AfterLastSlash(s) ==
    CHOOSE x \in {SubSeq(s, k, Len(s)) : k \in 2..(Len(s) + 1)} :
        ~HasSlash(x) /\ s[Len(s) - Len(x)] = "/"

CleanBranch == CondenseSpaces(TrimSpace(mBranch))

\* C15, as claimed: the result is never empty; an empty branch gives
\* "unknown"; a branch with a "/" is reduced to what follows its last "/",
\* so the result holds no "/"; the ticket rule is applied to what remains.
C15_TicketFollowsLastSlash ==
    mres.op = "extractTicket" =>
        /\ mres.text # <<>>
        /\ CleanBranch = <<>> => mres.text = UnknownTicket
        /\ (CleanBranch # <<>> /\ HasSlash(CleanBranch)) =>
              /\ mres.text = TicketOf(AfterLastSlash(CleanBranch))
              /\ ~HasSlash(mres.text)
        /\ (CleanBranch # <<>> /\ ~HasSlash(CleanBranch)) =>
              mres.text = TicketOf(CleanBranch)

\* C15, amended: the same, except that a branch whose last "/" is its last
\* character is not reduced, so that the result may hold a "/".
C15_TicketFollowsInnerSlash ==
    mres.op = "extractTicket" =>
        /\ mres.text # <<>>
        /\ CleanBranch = <<>> => mres.text = UnknownTicket
        /\ (/\ CleanBranch # <<>>
            /\ HasSlash(CleanBranch)
            /\ CleanBranch[Len(CleanBranch)] # "/") =>
              /\ mres.text = TicketOf(AfterLastSlash(CleanBranch))
              /\ ~HasSlash(mres.text)
        /\ (/\ CleanBranch # <<>>
            /\ (~HasSlash(CleanBranch) \/ CleanBranch[Len(CleanBranch)] = "/")) =>
              mres.text = TicketOf(CleanBranch)

\* the example of a ticket behind a path segment
C15_Witness ==
    /\ mres.op = "extractTicket"
    /\ mBranch = <<"f", "e", "a", "t", "u", "r", "e", "/", "T", "E", "S", "-",
                   "1", "2", "3", "-", "l", "o", "g", "i", "n", "-", "a", "u",
                   "d", "i", "t">>
    /\ mres.text = <<"T", "E", "S", "-", "1", "2", "3">>

-----------------------------------------------------------------------------
(* Claims about the status check of Client.Generate and the reads of Execute *)

\* C16, as claimed: a response whose status is outside 200-299 makes
\* Generate return the empty string and an error that carries the status
\* code and the body, and no line of the body is read as a fragment.
C16_NonSuccessStatusIsError ==
    (gpc = "returned" /\ transport = "ok" /\ status \notin 200..299) =>
        /\ gret.text = <<>>
        /\ gret.err = "status"
        /\ gret.code = status
        /\ gret.body = lines
        /\ pos = 0
        /\ out = <<>>

GitErrors ==
    {"git diff error", "no staged changes detected", "git rev-parse failed"}

\* C17: no call reaches the LLM before a non-blank diff and the branch have
\* been read, and when Execute returns an error of the diff, the blank check
\* or the branch, the Result is empty and no call was made.
C17_NoCallBeforeDiffAndBranch ==
    /\ epc \in {"start", "branch"} => calls = <<>>
    /\ (calls # <<>> /\ epc # "done") =>
          /\ TrimSpace(eResult.DiffUsed) # <<>>
          /\ eResult.Branch \in ExecBranches
    /\ (epc = "done" /\ eErr \in GitErrors) =>
          /\ calls = <<>>
          /\ eResult = EmptyResult

\* Execute returned because the staged diff was blank
C17_Witness ==
    /\ epc = "done"
    /\ initialized
    /\ eErr = "no staged changes detected"
    /\ eResult = EmptyResult
    /\ calls = <<>>

====
